---------------------------- MODULE Spec2Model ----------------------------
(***************************************************************************)
(* Model of ziggy's MQTT message path: the three message callbacks of      *)
(* ZiggyMQTTClient (app/mqtt_client.py), the payload handlers they call,   *)
(* and Zigbee2MQTTMetrics.update_bridge_health / update_bridge_state       *)
(* (app/zigbee2mqtt_metrics.py) acting on the Prometheus metric objects    *)
(* (Spec); of messages given to every registered callback that matches     *)
(* their topic (DeliverySpec); of the bridge info and application info     *)
(* operations with the field configuration BRIDGE_INFO_INCLUDED_FIELDS     *)
(* (InfoSpec); and of the client's connection, subscription and publish    *)
(* operations with the startup code of app/main.py (ClientSpec).           *)
(*                                                                         *)
(* A JSON object is a function from its keys (strings) to values.  Where   *)
(* the code inspects the type of a value (isinstance, the "in" operator on *)
(* a non-container) the value carries a type tag.  A Python dict iterates  *)
(* in insertion order, so the devices map is a sequence of <<key, value>>  *)
(* pairs with distinct keys.                                               *)
(***************************************************************************)
EXTENDS Integers, Sequences, FiniteSets, TLC

\* Number of calls (messages delivered, direct update calls) in one run.
MaxSteps == 2

\* Number of info operations (update_bridge_info, update_app_info, add_ and
\* remove_bridge_info_field) in one run.
MaxInfoSteps == 3

\* Number of client operations (connect, disconnect, subscribe, connection
\* events, startup) in one run.
MaxClientSteps == 4

VARIABLES
    bridge,         \* values of the zigbee2mqtt_* metric objects (one bridge_name)
    mqtt_metrics,   \* values of mqtt_messages_received / mqtt_message_processing_errors
    clock,          \* time.time()
    steps,          \* calls made so far
    last,           \* history: the last call, its input and how it ended
    handled,        \* history: the callbacks the MQTT layer ran for the last message
    BRIDGE_INFO_INCLUDED_FIELDS,  \* category -> list of the fields to surface
    info_metrics,   \* values of the Info metrics and of the info timestamp gauge
    info_last,      \* history: the last info operation, its input and how it ended
    client,         \* the ZiggyMQTTClient: connected, subscribed_topics
    connection_metrics,  \* values of the connection and subscription metrics
    client_last,    \* history: the last client operation and what it returned
    process         \* the globals of the process and the phase of lifespan()

message_vars == <<bridge, mqtt_metrics, last, handled>>

info_vars == <<BRIDGE_INFO_INCLUDED_FIELDS, info_metrics, info_last>>

client_vars == <<client, connection_metrics, client_last, process>>

vars == <<bridge, mqtt_metrics, clock, steps, last, handled,
          BRIDGE_INFO_INCLUDED_FIELDS, info_metrics, info_last,
          client, connection_metrics, client_last, process>>

---------------------------------------------------------------------------
(* JSON values                                                             *)

EmptyDict == [k \in {} |-> 0]

Has(d, k) == k \in DOMAIN d

\* The dicts with an optional key k whose value, when present, is in S.
Opt(k, S) == {EmptyDict} \cup {k :> v : v \in S}

Merge(A, B) == {a @@ b : a \in A, b \in B}

---------------------------------------------------------------------------
(* Topics and labels                                                       *)

zigbee2mqtt_base_topic == "zigbee2mqtt"

zigbee2mqtt_health_topic == "zigbee2mqtt/bridge/health"

zigbee2mqtt_state_topic == "zigbee2mqtt/bridge/state"

\* Topics a message may arrive on: the two bridge topics and two others.
Topics ==
    {zigbee2mqtt_health_topic, zigbee2mqtt_state_topic,
     "zigbee2mqtt/bridge/info", "home/sensor"}

ErrorTypes == {"json_parse_error", "handler_error", "general_error", "TypeError"}

\* Device IEEE addresses seen in payloads.
DeviceIeee == {"0x1", "0x2"}

\* Keys that mark a devices map as bridge-level summary counts.
SummaryKeys == {"total", "active"}

\* Every key of a devices map is a possible device_ieee label value.
DeviceLabels == DeviceIeee \cup SummaryKeys

DeviceGauges ==
    {"zigbee2mqtt_device_leave_count",
     "zigbee2mqtt_device_network_address_changes",
     "zigbee2mqtt_device_messages",
     "zigbee2mqtt_device_messages_per_sec"}

---------------------------------------------------------------------------
(* Prometheus metric primitives.  A result is [m |-> value(s), ok |-> the  *)
(* call returned (FALSE: it raised)].                                      *)

\* Counter.inc(amount) with the non-negativity check left out.
inc_unchecked(value, amount) == [v |-> value + amount, ok |-> TRUE]

\* Counter.inc(amount): raises ValueError on a negative amount.
inc(value, amount) ==
    IF amount < 0
    THEN [v |-> value, ok |-> FALSE]
    ELSE [v |-> value + amount, ok |-> TRUE]

\* Gauge.labels(bridge_name).set(value)
set(m, gauge, value) == [m EXCEPT ![gauge] = value]

\* Gauge.labels(bridge_name, device_ieee).set(value)
set_device(m, gauge, device_ieee, value) ==
    [m EXCEPT ![gauge][device_ieee] = value]

\* The metric values before any sample was recorded.
InitBridge ==
    [zigbee2mqtt_bridge_health_timestamp |-> 0,
     zigbee2mqtt_os_load_average_1m |-> 0,
     zigbee2mqtt_os_load_average_5m |-> 0,
     zigbee2mqtt_os_load_average_15m |-> 0,
     zigbee2mqtt_os_memory_used_mb |-> 0,
     zigbee2mqtt_os_memory_percent |-> 0,
     zigbee2mqtt_process_uptime_seconds |-> 0,
     zigbee2mqtt_process_memory_used_mb |-> 0,
     zigbee2mqtt_process_memory_percent |-> 0,
     zigbee2mqtt_mqtt_connected |-> 0,
     zigbee2mqtt_mqtt_queued_messages |-> 0,
     zigbee2mqtt_mqtt_published_messages |-> 0,
     zigbee2mqtt_mqtt_received_messages |-> 0,
     zigbee2mqtt_device_leave_count |-> [d \in DeviceLabels |-> 0],
     zigbee2mqtt_device_network_address_changes |-> [d \in DeviceLabels |-> 0],
     zigbee2mqtt_device_messages |-> [d \in DeviceLabels |-> 0],
     zigbee2mqtt_device_messages_per_sec |-> [d \in DeviceLabels |-> 0],
     zigbee2mqtt_device_appearances |-> [d \in DeviceLabels |-> 0],
     zigbee2mqtt_bridge_state |-> 0,
     zigbee2mqtt_bridge_state_timestamp |-> 0]

---------------------------------------------------------------------------
(* Zigbee2MQTTMetrics.update_bridge_health, section by section             *)

\* response_time (milliseconds) to the health timestamp gauge (seconds).
update_health_timestamp(m, health_data) ==
    IF Has(health_data, "response_time")
    THEN set(m, "zigbee2mqtt_bridge_health_timestamp",
             health_data.response_time \div 1000)
    ELSE m

\* The os section with the load average applied index by index as far as
\* the array goes.
update_os_partial(m, health_data) ==
    IF ~Has(health_data, "os") THEN m
    ELSE
        LET os_data == health_data.os
            n == IF Has(os_data, "load_average")
                 THEN Len(os_data.load_average) ELSE 0
            m1 == IF n >= 1
                  THEN set(m, "zigbee2mqtt_os_load_average_1m",
                           os_data.load_average[1])
                  ELSE m
            m2 == IF n >= 2
                  THEN set(m1, "zigbee2mqtt_os_load_average_5m",
                           os_data.load_average[2])
                  ELSE m1
            m3 == IF n >= 3
                  THEN set(m2, "zigbee2mqtt_os_load_average_15m",
                           os_data.load_average[3])
                  ELSE m2
            m4 == IF Has(os_data, "memory_used_mb")
                  THEN set(m3, "zigbee2mqtt_os_memory_used_mb",
                           os_data.memory_used_mb)
                  ELSE m3
        IN  IF Has(os_data, "memory_percent")
            THEN set(m4, "zigbee2mqtt_os_memory_percent",
                     os_data.memory_percent)
            ELSE m4

\* The os section: the three load averages only from an array of at least
\* three elements, then the two memory gauges.
update_os(m, health_data) ==
    IF ~Has(health_data, "os") THEN m
    ELSE
        LET os_data == health_data.os
            m1 == IF Has(os_data, "load_average")
                     /\ Len(os_data.load_average) >= 3
                  THEN set(set(set(m,
                           "zigbee2mqtt_os_load_average_1m",
                           os_data.load_average[1]),
                           "zigbee2mqtt_os_load_average_5m",
                           os_data.load_average[2]),
                           "zigbee2mqtt_os_load_average_15m",
                           os_data.load_average[3])
                  ELSE m
            m2 == IF Has(os_data, "memory_used_mb")
                  THEN set(m1, "zigbee2mqtt_os_memory_used_mb",
                           os_data.memory_used_mb)
                  ELSE m1
        IN  IF Has(os_data, "memory_percent")
            THEN set(m2, "zigbee2mqtt_os_memory_percent",
                     os_data.memory_percent)
            ELSE m2

\* One optional field of the process section.
process_field(m, process_data, field, gauge) ==
    IF Has(process_data, field) THEN set(m, gauge, process_data[field]) ELSE m

\* The process section with the gauges reset when the section is missing.
update_process_zeroing(m, health_data) ==
    LET process_data ==
            IF Has(health_data, "process") THEN health_data.process
            ELSE [uptime_sec |-> 0, memory_used_mb |-> 0, memory_percent |-> 0]
    IN  process_field(
            process_field(
                process_field(m, process_data, "uptime_sec",
                              "zigbee2mqtt_process_uptime_seconds"),
                process_data, "memory_used_mb",
                "zigbee2mqtt_process_memory_used_mb"),
            process_data, "memory_percent",
            "zigbee2mqtt_process_memory_percent")

\* The process section.
update_process(m, health_data) ==
    IF ~Has(health_data, "process") THEN m
    ELSE
        LET process_data == health_data.process
        IN  process_field(
                process_field(
                    process_field(m, process_data, "uptime_sec",
                                  "zigbee2mqtt_process_uptime_seconds"),
                    process_data, "memory_used_mb",
                    "zigbee2mqtt_process_memory_used_mb"),
                process_data, "memory_percent",
                "zigbee2mqtt_process_memory_percent")

\* The mqtt section: two gauges, then the two reported totals are added to
\* the local counters; a raising inc ends the call with what was set so far.
update_mqtt(m, health_data) ==
    IF ~Has(health_data, "mqtt") THEN [m |-> m, ok |-> TRUE]
    ELSE
        LET mqtt_data == health_data.mqtt
            m1 == IF Has(mqtt_data, "connected")
                  THEN set(m, "zigbee2mqtt_mqtt_connected",
                           IF mqtt_data.connected THEN 1 ELSE 0)
                  ELSE m
            m2 == IF Has(mqtt_data, "queued_messages")
                  THEN set(m1, "zigbee2mqtt_mqtt_queued_messages",
                           mqtt_data.queued_messages)
                  ELSE m1
            published ==
                IF Has(mqtt_data, "published_messages_total")
                THEN inc(m2.zigbee2mqtt_mqtt_published_messages,
                         mqtt_data.published_messages_total)
                ELSE [v |-> m2.zigbee2mqtt_mqtt_published_messages, ok |-> TRUE]
            m3 == set(m2, "zigbee2mqtt_mqtt_published_messages", published.v)
            received ==
                IF Has(mqtt_data, "received_messages_total")
                THEN inc(m3.zigbee2mqtt_mqtt_received_messages,
                         mqtt_data.received_messages_total)
                ELSE [v |-> m3.zigbee2mqtt_mqtt_received_messages, ok |-> TRUE]
            m4 == set(m3, "zigbee2mqtt_mqtt_received_messages", received.v)
        IN  IF ~published.ok THEN [m |-> m2, ok |-> FALSE]
            ELSE [m |-> m4, ok |-> received.ok]

\* One optional field of a device entry.
device_field(m, fields, field, gauge, device_ieee) ==
    IF Has(fields, field)
    THEN set_device(m, gauge, device_ieee, fields[field])
    ELSE m

\* The body of the per-device loop for one entry.  "leave_count" in
\* device_data raises TypeError when device_data is a number; on a string it
\* is a substring test, which no entry of the model passes.
update_device(m, device_ieee, device_data) ==
    IF device_data.type = "number" THEN [m |-> m, ok |-> FALSE]
    ELSE
        LET fields ==
                IF device_data.type = "dict" THEN device_data.fields
                ELSE EmptyDict
            m1 == device_field(m, fields, "leave_count",
                               "zigbee2mqtt_device_leave_count", device_ieee)
            m2 == device_field(m1, fields, "network_address_changes",
                               "zigbee2mqtt_device_network_address_changes",
                               device_ieee)
            m3 == device_field(m2, fields, "messages",
                               "zigbee2mqtt_device_messages", device_ieee)
            m4 == device_field(m3, fields, "messages_per_sec",
                               "zigbee2mqtt_device_messages_per_sec",
                               device_ieee)
            appearances ==
                inc(m4.zigbee2mqtt_device_appearances[device_ieee], 1)
        IN  [m |-> set_device(m4, "zigbee2mqtt_device_appearances",
                              device_ieee, appearances.v),
             ok |-> TRUE]

\* for device_ieee, device_data in devices_data.items(): the loop ends at
\* the first entry that raises.
RECURSIVE update_each_device(_, _)
update_each_device(m, items) ==
    IF items = <<>> THEN [m |-> m, ok |-> TRUE]
    ELSE
        LET r == update_device(m, items[1][1], items[1][2])
        IN  IF r.ok THEN update_each_device(r.m, Tail(items)) ELSE r

DeviceKeys(items) == {items[i][1] : i \in DOMAIN items}

\* A devices map is summary data when only one of the two summary keys is
\* looked for.
is_summary_total_only(items) == "total" \in DeviceKeys(items)

\* "total" in devices_data or "active" in devices_data
is_summary(items) ==
    "total" \in DeviceKeys(items) \/ "active" \in DeviceKeys(items)

\* The devices section: nothing for a non-dict or a summary map, the
\* per-device loop otherwise.
update_devices(m, health_data) ==
    IF ~Has(health_data, "devices") THEN [m |-> m, ok |-> TRUE]
    ELSE
        LET devices_data == health_data.devices
        IN  IF devices_data.type # "dict" THEN [m |-> m, ok |-> TRUE]
            ELSE IF is_summary(devices_data.items) THEN [m |-> m, ok |-> TRUE]
            ELSE update_each_device(m, devices_data.items)

\* update_bridge_health(health_data): the sections in order; an exception
\* leaves the metrics as the sections before it set them.
update_bridge_health(m, health_data) ==
    LET m1 == update_health_timestamp(m, health_data)
        m2 == update_os(m1, health_data)
        m3 == update_process(m2, health_data)
        r4 == update_mqtt(m3, health_data)
    IN  IF r4.ok THEN update_devices(r4.m, health_data) ELSE r4

---------------------------------------------------------------------------
(* Zigbee2MQTTMetrics.update_bridge_state                                  *)

\* The state gauge as 1 for every state but "offline".
state_value_not_offline(state) == IF state # "offline" THEN 1 ELSE 0

\* 1 if state_data["state"] == "online" else 0
state_value(state) == IF state = "online" THEN 1 ELSE 0

\* update_bridge_state(state_data) at wall-clock time now: the timestamp
\* gauge always, the state gauge when the state field is present.
update_bridge_state(m, state_data, now) ==
    LET m1 == set(m, "zigbee2mqtt_bridge_state_timestamp", now)
    IN  IF Has(state_data, "state")
        THEN [m |-> set(m1, "zigbee2mqtt_bridge_state",
                        state_value(state_data.state)),
              ok |-> TRUE]
        ELSE [m |-> m1, ok |-> TRUE]

---------------------------------------------------------------------------
(* MQTTMetrics                                                             *)

InitMqttMetrics ==
    [mqtt_messages_received |-> [t \in Topics |-> 0],
     mqtt_message_processing_errors |-> [k \in Topics \X ErrorTypes |-> 0]]

increment_messages_received(mm, topic) ==
    [mm EXCEPT !.mqtt_messages_received[topic] = @ + 1]

increment_processing_errors(mm, topic, error_type) ==
    [mm EXCEPT !.mqtt_message_processing_errors[<<topic, error_type>>] = @ + 1]

---------------------------------------------------------------------------
(* Payloads as the MQTT layer hands them to a callback.                    *)
(*   [type |-> "none"]                            no payload (None)        *)
(*   [type |-> "bytes", utf8 |-> b, text |-> t]   bytes; b: valid UTF-8    *)
(*   [type |-> "str", text |-> t]                 already text             *)
(* A text t is [kind |-> k, value |-> v]: "empty" (no characters),         *)
(* "malformed" (not JSON), "array" (JSON, not an object), "object" (a JSON *)
(* object, v the parsed dict).                                             *)

NonePayload == [type |-> "none"]

Text(kind, value) == [kind |-> kind, value |-> value]

Bytes(text) == [type |-> "bytes", utf8 |-> TRUE, text |-> text]

InvalidUtf8Bytes == [type |-> "bytes", utf8 |-> FALSE, text |-> Text("malformed", EmptyDict)]

Str(text) == [type |-> "str", text |-> text]

\* len(payload): TypeError on None.
len_raises(payload) == payload.type = "none"

\* json.loads(payload_str): JSONDecodeError unless the text is JSON.
json_loads(text) ==
    IF text.kind \in {"empty", "malformed"}
    THEN [exc |-> "JSONDecodeError", value |-> EmptyDict]
    ELSE [exc |-> "none", value |-> text.value]

\* The decode and parse steps shared by the health and state handlers:
\* len(payload), payload.decode("utf-8") for bytes, json.loads, and
\* data.keys(), which raises AttributeError on a JSON value that is no object.
parse_payload(payload) ==
    IF len_raises(payload) THEN [exc |-> "TypeError", value |-> EmptyDict]
    ELSE IF payload.type = "bytes" /\ ~payload.utf8
    THEN [exc |-> "UnicodeDecodeError", value |-> EmptyDict]
    ELSE
        LET parsed == json_loads(payload.text)
        IN  IF parsed.exc # "none" THEN parsed
            ELSE IF payload.text.kind # "object"
            THEN [exc |-> "AttributeError", value |-> EmptyDict]
            ELSE parsed

\* Every exception counted as handler_error.
error_type_handler_only(exc) == "handler_error"

\* except json.JSONDecodeError: json_parse_error; except Exception:
\* handler_error.
error_type(exc) ==
    IF exc = "JSONDecodeError" THEN "json_parse_error" ELSE "handler_error"

\* What a handler or callback leaves behind.
Outcome(b, mm, called, data, raised, escaped) ==
    [bridge |-> b, mqtt_metrics |-> mm, called |-> called, data |-> data,
     raised |-> raised, escaped |-> escaped]

\* _handle_zigbee2mqtt_health(payload)
handle_zigbee2mqtt_health(b, mm, payload) ==
    LET parsed == parse_payload(payload)
    IN  IF parsed.exc # "none"
        THEN Outcome(b,
                     increment_processing_errors(
                         mm, zigbee2mqtt_health_topic, error_type(parsed.exc)),
                     "none", EmptyDict, FALSE, FALSE)
        ELSE
            LET r == update_bridge_health(b, parsed.value)
            IN  Outcome(r.m,
                        IF r.ok THEN mm
                        ELSE increment_processing_errors(
                                 mm, zigbee2mqtt_health_topic,
                                 error_type("Exception")),
                        "update_bridge_health", parsed.value, ~r.ok, FALSE)

\* _handle_zigbee2mqtt_state(payload) at wall-clock time now
handle_zigbee2mqtt_state(b, mm, payload, now) ==
    LET parsed == parse_payload(payload)
    IN  IF parsed.exc # "none"
        THEN Outcome(b,
                     increment_processing_errors(
                         mm, zigbee2mqtt_state_topic, error_type(parsed.exc)),
                     "none", EmptyDict, FALSE, FALSE)
        ELSE
            LET r == update_bridge_state(b, parsed.value, now)
            IN  Outcome(r.m,
                        IF r.ok THEN mm
                        ELSE increment_processing_errors(
                                 mm, zigbee2mqtt_state_topic,
                                 error_type("Exception")),
                        "update_bridge_state", parsed.value, ~r.ok, FALSE)

\* _handle_general_message(topic, payload): JSON errors are only logged; any
\* other exception is counted as general_error after a debug line that
\* evaluates len(payload) once more, which raises again on None.
handle_general_message(b, mm, topic, payload) ==
    IF len_raises(payload)
    THEN Outcome(b, mm, "none", EmptyDict, FALSE, TRUE)
    ELSE IF payload.type = "bytes" /\ ~payload.utf8
    THEN Outcome(b, increment_processing_errors(mm, topic, "general_error"),
                 "none", EmptyDict, FALSE, FALSE)
    ELSE Outcome(b, mm, "none", EmptyDict, FALSE, FALSE)

\* The except clause of a message callback: a debug line evaluating
\* len(payload), then the error counter labelled with the exception's type.
callback_except(b, mm, topic, payload, exc) ==
    IF len_raises(payload)
    THEN Outcome(b, mm, "none", EmptyDict, FALSE, TRUE)
    ELSE Outcome(b, increment_processing_errors(mm, topic, exc),
                 "none", EmptyDict, FALSE, FALSE)

\* on_health_message(client, topic, payload, qos, properties)
on_health_message(b, mm, topic, payload) ==
    IF len_raises(payload)
    THEN callback_except(b, mm, topic, payload, "TypeError")
    ELSE handle_zigbee2mqtt_health(
             b, increment_messages_received(mm, topic), payload)

\* on_state_message(client, topic, payload, qos, properties)
on_state_message(b, mm, topic, payload, now) ==
    IF len_raises(payload)
    THEN callback_except(b, mm, topic, payload, "TypeError")
    ELSE handle_zigbee2mqtt_state(
             b, increment_messages_received(mm, topic), payload, now)

\* on_message(client, topic, payload, qos, properties), the "#" handler
on_message(b, mm, topic, payload, now) ==
    IF len_raises(payload)
    THEN callback_except(b, mm, topic, payload, "TypeError")
    ELSE
        LET mm1 == increment_messages_received(mm, topic)
        IN  IF topic = zigbee2mqtt_health_topic
            THEN handle_zigbee2mqtt_health(b, mm1, payload)
            ELSE IF topic = zigbee2mqtt_state_topic
            THEN handle_zigbee2mqtt_state(b, mm1, payload, now)
            ELSE
                LET g == handle_general_message(b, mm1, topic, payload)
                IN  IF g.escaped
                    THEN callback_except(b, mm1, topic, payload, "TypeError")
                    ELSE g

\* The callbacks registered with @self.mqtt.subscribe whose topic filter
\* matches a topic, in the order of their registration: on_health_message
\* for the health topic, on_state_message for the state topic, on_message
\* for "#", which matches every topic.
matching_handlers(topic) ==
    (IF topic = zigbee2mqtt_health_topic THEN <<"on_health_message">>
     ELSE << >>)
    \o (IF topic = zigbee2mqtt_state_topic THEN <<"on_state_message">>
        ELSE << >>)
    \o <<"on_message">>

\* One registered callback run on a message.
run_handler(handler, b, mm, topic, payload, now) ==
    CASE handler = "on_health_message" ->
             on_health_message(b, mm, topic, payload)
      [] handler = "on_state_message" ->
             on_state_message(b, mm, topic, payload, now)
      [] handler = "on_message" -> on_message(b, mm, topic, payload, now)

\* A message arrives on a topic: every registered callback whose filter
\* matches the topic is run on it, one after the other, each on the metrics
\* the one before left. The outcomes of the runs, in their order.
dispatch(b, mm, topic, payload, now) ==
    LET handlers == matching_handlers(topic)
    IN  CHOOSE outs \in
            {IF Len(handlers) = 1 THEN <<first>>
             ELSE <<first,
                    run_handler(handlers[2], first.bridge, first.mqtt_metrics,
                                topic, payload, now)>> :
                 first \in {run_handler(handlers[1], b, mm, topic, payload,
                                        now)}} : TRUE

---------------------------------------------------------------------------
(* Inputs: the health and state dicts and the payloads the calls draw from *)

LoadAverages == {<<>>, <<1, 2>>, <<1, 2, 3>>, <<4, 5, 6>>, <<7, 8, 9, 10>>}

OsDicts ==
    Merge(Merge(Opt("load_average", LoadAverages),
                Opt("memory_used_mb", {11})),
          Opt("memory_percent", {12}))

ProcessDicts ==
    Merge(Merge(Opt("uptime_sec", {21}), Opt("memory_used_mb", {22})),
          Opt("memory_percent", {23}))
    \cup {[uptime_sec |-> 24, memory_used_mb |-> 25, memory_percent |-> 26]}

MqttDicts ==
    Merge(Opt("connected", {TRUE, FALSE}), Opt("queued_messages", {3}))
    \cup Merge(Opt("published_messages_total", {-1, 0, 1, 2}),
               Opt("received_messages_total", {-1, 1}))
    \cup {[connected |-> TRUE, queued_messages |-> 4,
           published_messages_total |-> 1, received_messages_total |-> 2]}

Dict(fields) == [type |-> "dict", fields |-> fields]

Number == [type |-> "number"]

String == [type |-> "string"]

AllFields(v) ==
    [leave_count |-> v, network_address_changes |-> v + 1,
     messages |-> v + 2, messages_per_sec |-> v + 3]

\* Values of one entry of a devices map.
DeviceEntries ==
    {Dict(EmptyDict), Dict([leave_count |-> 1]), Dict([leave_count |-> 2]),
     Dict([network_address_changes |-> 3, messages |-> 4,
           messages_per_sec |-> 5]),
     Dict(AllFields(6)), Number, String}

PairEntries == {Dict([leave_count |-> 1]), Dict(AllFields(6)), Number, String}

DevicesDict(items) == [type |-> "dict", items |-> items]

\* Values of the devices key: per-device maps of up to two devices, summary
\* maps (some with device-like entries beside the summary keys), and a list.
DevicesValues ==
    {DevicesDict(<<>>)}
    \cup {DevicesDict(<<(<<"0x1", e>>)>>) : e \in DeviceEntries}
    \cup {DevicesDict(<<(<<"0x1", e1>>), (<<"0x2", e2>>)>>) :
              e1 \in PairEntries, e2 \in PairEntries}
    \cup {DevicesDict(<<(<<"total", Number>>), (<<"active", Number>>)>>),
          DevicesDict(<<(<<"total", Number>>)>>),
          DevicesDict(<<(<<"0x1", Dict(AllFields(1))>>),
                        (<<"active", Number>>)>>),
          DevicesDict(<<(<<"0x2", Dict([leave_count |-> 2])>>),
                        (<<"total", Number>>)>>)}
    \cup {[type |-> "list"]}

\* Health dicts with several sections at once.
MixedHealth ==
    {[response_time |-> 3000,
      os |-> [load_average |-> <<1, 2, 3>>, memory_used_mb |-> 11],
      process |-> [uptime_sec |-> 21],
      mqtt |-> [connected |-> TRUE, published_messages_total |-> 2,
                received_messages_total |-> 1],
      devices |-> DevicesDict(<<(<<"0x1", Dict(AllFields(1))>>)>>)],
     [os |-> [load_average |-> <<4, 5>>, memory_percent |-> 12],
      mqtt |-> [queued_messages |-> 3, published_messages_total |-> -1],
      devices |-> DevicesDict(<<(<<"0x1", Dict([leave_count |-> 2])>>)>>)],
     [mqtt |-> [published_messages_total |-> 1,
                received_messages_total |-> -1],
      devices |-> DevicesDict(<<(<<"0x2", Dict(AllFields(2))>>)>>)]}

HealthDicts ==
    {EmptyDict, [response_time |-> 1000], [response_time |-> 2000]}
    \cup {[os |-> d] : d \in OsDicts}
    \cup {[process |-> d] : d \in ProcessDicts}
    \cup {[mqtt |-> d] : d \in MqttDicts}
    \cup {[devices |-> d] : d \in DevicesValues}
    \cup MixedHealth

StateDicts ==
    {EmptyDict, [state |-> "online"], [state |-> "offline"],
     [state |-> "anything-else"], [state |-> "Online"]}

\* Payloads that are no JSON object: None, empty, invalid UTF-8, not JSON
\* (as bytes and as text), and a JSON array.
BadPayloads ==
    {NonePayload, Bytes(Text("empty", EmptyDict)), InvalidUtf8Bytes,
     Bytes(Text("malformed", EmptyDict)), Str(Text("malformed", EmptyDict)),
     Bytes(Text("array", EmptyDict))}

ObjectPayloads ==
    {Bytes(Text("object", d)) : d \in MixedHealth \cup StateDicts}
    \cup {Str(Text("object", [mqtt |-> [published_messages_total |-> 1]])),
          Bytes(Text("object",
                     [devices |->
                          DevicesDict(<<(<<"0x1", Dict(AllFields(6))>>),
                                        (<<"0x2", Number>>)>>)]))}

Payloads == BadPayloads \cup ObjectPayloads

---------------------------------------------------------------------------
(* Bridge info and application info: the Info metrics, the field           *)
(* configuration BRIDGE_INFO_INCLUDED_FIELDS and the operations on them    *)

(* A JSON value v is [type |-> t, value |-> text] for t in "str", "int",   *)
(* "bool", "null", with text the JSON text of the value, or                *)
(* [type |-> "dict", fields |-> f] with f a dict of JSON values.           *)
PyStr(s) == [type |-> "str", value |-> s]

PyInt(text) == [type |-> "int", value |-> text]

PyBool(text) == [type |-> "bool", value |-> text]

PyNone == [type |-> "null", value |-> "null"]

PyDict(fields) == [type |-> "dict", fields |-> fields]

\* str(value) returning the text unchanged for every type.
str_as_json(v) == IF v.type = "dict" THEN "{...}" ELSE v.value

\* str(value): a str is itself, an int its decimal text, True / False and
\* None their Python names, a dict its repr.
str(v) ==
    CASE v.type = "str" -> v.value
      [] v.type = "int" -> v.value
      [] v.type = "bool" -> IF v.value = "true" THEN "True" ELSE "False"
      [] v.type = "null" -> "None"
      [] OTHER -> "{...}"

\* isinstance(value, dict)
isinstance_dict(v) == v.type = "dict"

\* The Info metrics of the bridge, the info timestamp gauge and the
\* application Info metric, before any sample: an Info holds {}.
InitInfoMetrics ==
    [zigbee2mqtt_bridge_info_version |-> EmptyDict,
     zigbee2mqtt_bridge_info_coordinator |-> EmptyDict,
     zigbee2mqtt_bridge_info_config |-> EmptyDict,
     zigbee2mqtt_bridge_info_timestamp |-> 0,
     ziggy_app_info |-> EmptyDict]

\* BRIDGE_INFO_INCLUDED_FIELDS as the module defines it.
InitIncludedFields ==
    [version |-> <<"version", "commit">>,
     coordinator |-> <<"ieee_address", "type">>,
     config |-> <<"mqtt_server", "mqtt_base_topic", "permit_join",
                  "log_level">>]

\* field_name in a list
InList(field_name, list) == \E i \in DOMAIN list : list[i] = field_name

\* list.remove(field_name): the list without the first occurrence of
\* field_name; ValueError when the list does not hold it.
list_remove(list, field_name) ==
    IF ~InList(field_name, list) THEN [list |-> list, ok |-> FALSE]
    ELSE
        LET first == CHOOSE i \in DOMAIN list :
                         /\ list[i] = field_name
                         /\ \A j \in 1..(i - 1) : list[j] # field_name
        IN  [list |-> SubSeq(list, 1, first - 1)
                          \o SubSeq(list, first + 1, Len(list)),
             ok |-> TRUE]

\* add_bridge_info_field appending without the membership test.
add_bridge_info_field_unchecked(included, category, field_name) ==
    IF category \in DOMAIN included
    THEN [included |-> [included EXCEPT ![category] = Append(@, field_name)],
          ok |-> TRUE]
    ELSE [included |-> included, ok |-> TRUE]

\* add_bridge_info_field(category, field_name): the configuration it
\* leaves; an unknown category is only logged.
add_bridge_info_field(included, category, field_name) ==
    IF category \in DOMAIN included
    THEN IF ~InList(field_name, included[category])
         THEN [included |->
                   [included EXCEPT ![category] = Append(@, field_name)],
               ok |-> TRUE]
         ELSE [included |-> included, ok |-> TRUE]
    ELSE [included |-> included, ok |-> TRUE]

\* remove_bridge_info_field(category, field_name)
remove_bridge_info_field(included, category, field_name) ==
    IF category \in DOMAIN included
    THEN IF InList(field_name, included[category])
         THEN LET r == list_remove(included[category], field_name)
              IN  [included |-> [included EXCEPT ![category] = r.list],
                   ok |-> r.ok]
         ELSE [included |-> included, ok |-> TRUE]
    ELSE [included |-> included, ok |-> TRUE]

\* The label names of the bridge Info metrics and of ziggy_app_info.
BridgeInfoLabelnames == {"bridge_name"}

AppInfoLabelnames == {"app_name"}

\* Info.info(val) of prometheus_client: ValueError when a key of val is a
\* label name of the metric, else the value is replaced by val.
info(m, metric, labelnames, val) ==
    IF labelnames \cap DOMAIN val # {}
    THEN [m |-> m, ok |-> FALSE]
    ELSE [m |-> [m EXCEPT ![metric] = val], ok |-> TRUE]

\* "field in data" for a field name and a JSON value: key membership on a
\* dict, substring test on a str (the texts of the model contain a field
\* name only when they equal it), TypeError on None, int and bool.
in_raises(data) == data.type \in {"null", "int", "bool"}

in_data(field, data) ==
    CASE data.type = "dict" -> Has(data.fields, field)
      [] data.type = "str" -> data.value = field
      [] OTHER -> FALSE

\* The filtering step keeping every field of a dict, listed or not.
filter_fields_unlisted(list, data) ==
    IF data.type = "dict"
    THEN [category_info |-> [f \in DOMAIN data.fields |-> str(data.fields[f])],
          ok |-> TRUE]
    ELSE [category_info |-> EmptyDict, ok |-> FALSE]

\* for field in BRIDGE_INFO_INCLUDED_FIELDS[category]:
\*     if field in data: category_info[field] = str(data[field])
\* data[field] raises TypeError on a str.
filter_fields(list, data) ==
    LET present == {list[i] : i \in {j \in DOMAIN list : in_data(list[j], data)}}
    IN  IF Len(list) > 0 /\ in_raises(data)
        THEN [category_info |-> EmptyDict, ok |-> FALSE]
        ELSE IF present # {} /\ data.type = "str"
        THEN [category_info |-> EmptyDict, ok |-> FALSE]
        ELSE [category_info |-> [f \in present |-> str(data.fields[f])],
              ok |-> TRUE]

\* One section of update_bridge_info emitting the filtered map even when it
\* is empty.
update_info_section_always(s, list, data, category, metric) ==
    IF ~s.ok THEN s
    ELSE
        LET r == filter_fields(list, data)
        IN  IF ~r.ok THEN [s EXCEPT !.ok = FALSE]
            ELSE
                LET e == info(s.m, metric, BridgeInfoLabelnames,
                              r.category_info)
                IN  [m |-> e.m, ok |-> e.ok,
                     emitted |-> IF e.ok THEN s.emitted \cup {category}
                                 ELSE s.emitted]

\* One section of update_bridge_info: filter the fields of data by the
\* category's list and emit the map when it is not empty. s is the state
\* of the call so far: the metrics, the categories emitted, and whether no
\* exception has been raised.
update_info_section(s, list, data, category, metric) ==
    IF ~s.ok THEN s
    ELSE
        LET r == filter_fields(list, data)
        IN  IF ~r.ok THEN [s EXCEPT !.ok = FALSE]
            ELSE IF r.category_info = EmptyDict THEN s
            ELSE
                LET e == info(s.m, metric, BridgeInfoLabelnames,
                              r.category_info)
                IN  [m |-> e.m, ok |-> e.ok,
                     emitted |-> IF e.ok THEN s.emitted \cup {category}
                                 ELSE s.emitted]

\* update_bridge_info(info_data) at wall-clock time now, under the field
\* configuration included: the timestamp gauge first, then the version
\* fields (read from the payload root when it has a "version" key), the
\* coordinator fields and the config fields.
update_bridge_info(m, included, info_data, now) ==
    LET s0 == [m |-> set(m, "zigbee2mqtt_bridge_info_timestamp", now),
               emitted |-> {}, ok |-> TRUE]
        s1 == IF Has(info_data, "version")
              THEN update_info_section(
                       s0, included.version, PyDict(info_data), "version",
                       "zigbee2mqtt_bridge_info_version")
              ELSE s0
        s2 == IF Has(info_data, "coordinator")
              THEN update_info_section(
                       s1, included.coordinator, info_data.coordinator,
                       "coordinator", "zigbee2mqtt_bridge_info_coordinator")
              ELSE s1
        s3 == IF Has(info_data, "config")
              THEN update_info_section(
                       s2, included.config, info_data.config, "config",
                       "zigbee2mqtt_bridge_info_config")
              ELSE s2
    IN  s3


\* The items a nested dictionary contributes: key_nestedkey |-> str(leaf).
flatten_nested(key, fields) ==
    [k \in {key \o "_" \o b : b \in DOMAIN fields} |->
        str(fields[CHOOSE b \in DOMAIN fields : k = key \o "_" \o b])]

\* The items one (key, value) of app_info contributes to flattened_info.
flatten_item(item) ==
    IF isinstance_dict(item[2])
    THEN flatten_nested(item[1], item[2].fields)
    ELSE item[1] :> str(item[2])

\* flattened_info after the loop over app_info.items(), a sequence of
\* (key, value) in the dict's order: a later item overwrites an equal key.
RECURSIVE flatten(_)
flatten(items) ==
    IF items = <<>> THEN EmptyDict
    ELSE flatten_item(items[Len(items)])
             @@ flatten(SubSeq(items, 1, Len(items) - 1))

\* update_app_info(app_info): flatten, then
\* ziggy_app_info.labels(app_name="ziggy").info(flattened_info).
update_app_info(m, app_info) ==
    info(m, "ziggy_app_info", AppInfoLabelnames, flatten(app_info))

---------------------------------------------------------------------------
(* Inputs of the info operations                                           *)

\* Root fields of the version category in an info payload.
VersionParts ==
    {EmptyDict,
     [version |-> PyStr("1.13.0-dev")],
     [version |-> PyStr("1.13.0-dev"), commit |-> PyStr("772f6c0")],
     [commit |-> PyStr("772f6c0")]}

\* The coordinator value of an info payload: objects, null and a string.
CoordinatorValues ==
    {PyDict([ieee_address |-> PyStr("0x123"), type |-> PyStr("zStack30x"),
             extra_field |-> PyStr("ignored")]),
     PyDict([ieee_address |-> PyStr("0x12345678")]),
     PyDict([extra_field |-> PyStr("ignored")]),
     PyNone,
     PyStr("type")}

\* The config value of an info payload.
ConfigValues ==
    {PyDict([log_level |-> PyStr("debug"), permit_join |-> PyBool("true"),
             some_config |-> PyStr("value")])}

\* Info payloads with fields of the categories the tests expect beside
\* version and coordinator.
OtherCategoryInfo ==
    {[log_level |-> PyStr("debug"), permit_join |-> PyBool("true")],
     [network |-> PyDict([channel |-> PyInt("15"), pan_id |-> PyInt("5674")])],
     [version |-> PyStr("1.13.0-dev"),
      os |-> PyDict([node_version |-> PyStr("v1.2.3")]),
      mqtt |-> PyDict([server |-> PyStr("mqtt://localhost:1883"),
                       version |-> PyInt("5")])]}

\* info_data
InfoDicts ==
    Merge(Merge(VersionParts, Opt("coordinator", CoordinatorValues)),
          Opt("config", ConfigValues))
        \cup OtherCategoryInfo

\* Categories and field names given to add_ / remove_bridge_info_field.
CallCategories == {"version", "coordinator", "network", "bridge"}

FieldNames == {"commit", "extra_field"}

\* app_info: (key, value) pairs in the order of the dict.
AppInfos ==
    {<< >>,
     << <<"platform", PyDict([system |-> PyStr("Linux")])>> >>,
     << <<"version", PyStr("1.0.0")>>,
        <<"platform", PyDict([system |-> PyStr("Linux"),
                              release |-> PyStr("5.4.0")])>> >>,
     << <<"version", PyStr("1.0.0")>>,
        <<"numbers", PyDict([int_value |-> PyInt("42")])>>,
        <<"booleans", PyDict([true_value |-> PyBool("true"),
                              false_value |-> PyBool("false")])>>,
        <<"none_value", PyNone>> >>,
     << <<"nested", PyDict([none_value |-> PyNone])>>,
        <<"count", PyInt("3")>>, <<"debug", PyBool("false")>> >>,
     << <<"app", PyDict([name |-> PyStr("Ziggy"),
                         version |-> PyStr("1.0.0")])>> >>,
     << <<"app_name", PyStr("Ziggy")>>, <<"version", PyStr("1.0.0")>> >>}

---------------------------------------------------------------------------
(* ZiggyMQTTClient: connection state, subscriptions and their metrics      *)

\* Return codes of the broker given to on_connect: 0 accepts.
ReturnCodes == {0, 5}

\* The reason labels of mqtt_connection_failures: rc_<rc> of a refused
\* connection, the exception's type name on connect()'s exception path.
Reasons == {"rc_5", "ValueError"}

\* The settings the process reads from its environment: MQTT_ENABLED is
\* "true", MQTT_BROKER_HOST is set, MQTT_BROKER_PORT is a number (int()
\* raises ValueError otherwise), and ZIGBEE2MQTT_BRIDGE_NAME ("unset": the
\* variable is not set).
Environments ==
    [MQTT_ENABLED : BOOLEAN, MQTT_BROKER_HOST : BOOLEAN,
     MQTT_BROKER_PORT : {"1883", "mqtt"},
     ZIGBEE2MQTT_BRIDGE_NAME : {"unset", "home"}]

\* os.getenv(name, default)
getenv(value, default) == IF value = "unset" THEN default ELSE value

\* A Zigbee2MQTTMetrics instance: who constructed it and its bridge_name.
Zigbee2MQTTMetrics(made_by, bridge_name) ==
    [made_by |-> made_by, bridge_name |-> bridge_name]

\* ZiggyMQTTClient.__init__ past int(MQTT_BROKER_PORT): MQTTMetrics is built
\* without a bridge_name, so with its default "default"; the client's
\* Zigbee2MQTTMetrics is named after ZIGBEE2MQTT_BRIDGE_NAME, "default"
\* when unset; the client is not connected and has no topic.
ZiggyMQTTClient(bridge_name_setting) ==
    [connected |-> FALSE, subscribed_topics |-> {},
     metrics |-> [bridge_name |-> "default"],
     zigbee2mqtt_metrics |->
         Zigbee2MQTTMetrics("ZiggyMQTTClient",
                            getenv(bridge_name_setting, "default"))]

\* The client as __init__ leaves it when no bridge name is set.
InitClient == ZiggyMQTTClient("unset")

\* The globals of the process: main.mqtt_client, the instance behind
\* get_zigbee2mqtt_metrics() (the client's constructor registered its own)
\* and how far lifespan() has come.
InitProcess ==
    [mqtt_client |-> "None",
     zigbee2mqtt_metrics |-> InitClient.zigbee2mqtt_metrics,
     lifespan |-> "not_started"]

\* The connection and subscription metrics before any sample.
InitConnectionMetrics ==
    [mqtt_connection_status |-> 0,
     mqtt_connection_attempts |-> 0,
     mqtt_connection_failures |-> [reason \in Reasons |-> 0],
     mqtt_subscriptions_active |-> 0,
     mqtt_subscription_attempts |-> [topic \in Topics |-> 0],
     mqtt_subscription_failures |-> [topic \in Topics |-> 0],
     mqtt_messages_published |-> [topic \in Topics |-> 0]]

\* MQTTMetrics.set_connection_status(connected)
set_connection_status(cm, connected) ==
    [cm EXCEPT !.mqtt_connection_status = IF connected THEN 1 ELSE 0]

\* MQTTMetrics.increment_connection_attempts()
increment_connection_attempts(cm) ==
    [cm EXCEPT !.mqtt_connection_attempts = @ + 1]

\* f"rc_{rc}"
rc_reason(rc) == CASE rc = 5 -> "rc_5"

\* MQTTMetrics.increment_connection_failures(reason)
increment_connection_failures(cm, reason) ==
    [cm EXCEPT !.mqtt_connection_failures[reason] = @ + 1]

\* MQTTMetrics.set_subscriptions_active(count)
set_subscriptions_active(cm, count) ==
    [cm EXCEPT !.mqtt_subscriptions_active = count]

\* MQTTMetrics.increment_subscription_attempts(topic)
increment_subscription_attempts(cm, topic) ==
    [cm EXCEPT !.mqtt_subscription_attempts[topic] = @ + 1]

\* MQTTMetrics.increment_subscription_failures(topic)
increment_subscription_failures(cm, topic) ==
    [cm EXCEPT !.mqtt_subscription_failures[topic] = @ + 1]

\* MQTTMetrics.increment_messages_published(topic)
increment_messages_published(cm, topic) ==
    [cm EXCEPT !.mqtt_messages_published[topic] = @ + 1]

\* What a client operation leaves behind: the client, the metrics, the
\* value returned ("raised": an exception left the operation) and the calls
\* that reached the MQTT layer, as <<method, topic>> pairs.
ClientOutcome(c, cm, result, calls) ==
    [client |-> c, cm |-> cm, result |-> result, calls |-> calls]

\* Where a statement of connect()'s try block raises: nowhere, at the
\* attempts counter (before the connected flag is set) or at
\* set_client_info (after it).
RaisePoints == {"none", "increment_connection_attempts", "set_client_info"}

\* ZiggyMQTTClient.connect(): the attempt is counted, then the client is
\* marked connected and the status gauge set to 1 at once; returns True.
\* The except clause counts a failure named after the exception's type and
\* sets the gauge to 0; it does not touch self.connected.
connect(c, cm, raises_at) ==
    CASE raises_at = "none" ->
             ClientOutcome([c EXCEPT !.connected = TRUE],
                           set_connection_status(
                               increment_connection_attempts(cm), TRUE),
                           "True", {})
      [] raises_at = "increment_connection_attempts" ->
             ClientOutcome(c,
                           set_connection_status(
                               increment_connection_failures(cm, "ValueError"),
                               FALSE),
                           "False", {})
      [] raises_at = "set_client_info" ->
             ClientOutcome([c EXCEPT !.connected = TRUE],
                           set_connection_status(
                               increment_connection_failures(
                                   increment_connection_attempts(cm),
                                   "ValueError"),
                               FALSE),
                           "False", {})

\* ZiggyMQTTClient.disconnect()
disconnect(c, cm) ==
    IF c.connected
    THEN ClientOutcome([c EXCEPT !.connected = FALSE],
                       set_connection_status(cm, FALSE), "None", {})
    ELSE ClientOutcome(c, cm, "None", {})

\* The subscribe calls of on_connect when the first failing subscription
\* ends the loop: failing comes first in the set's order.
resubscribe_until_error(topics, failing) ==
    IF topics \cap failing = {} THEN {<<"subscribe", t>> : t \in topics}
    ELSE {<<"subscribe", CHOOSE t \in topics \cap failing : TRUE>>}

\* The loop of on_connect over subscribed_topics: self.mqtt.subscribe(topic)
\* for each, an exception (topics in failing) logged and the loop continued.
resubscribe(topics, failing) == {<<"subscribe", t>> : t \in topics}

\* on_connect whose refusal branch only counts the failure.
on_connect_refusal_counted_only(c, cm, rc, failing) ==
    IF rc = 0
    THEN ClientOutcome([c EXCEPT !.connected = TRUE],
                       set_connection_status(cm, TRUE), "None",
                       resubscribe(c.subscribed_topics, failing))
    ELSE ClientOutcome(c, increment_connection_failures(cm, rc_reason(rc)),
                       "None", {})

\* on_connect(client, flags, rc, properties): rc 0 marks the client
\* connected and subscribes again to subscribed_topics; any other rc marks
\* it disconnected and counts a failure with reason rc_<rc>.
on_connect(c, cm, rc, failing) ==
    IF rc = 0
    THEN ClientOutcome([c EXCEPT !.connected = TRUE],
                       set_connection_status(cm, TRUE), "None",
                       resubscribe(c.subscribed_topics, failing))
    ELSE ClientOutcome([c EXCEPT !.connected = FALSE],
                       increment_connection_failures(
                           set_connection_status(cm, FALSE), rc_reason(rc)),
                       "None", {})

\* on_disconnect(client, packet, exc)
on_disconnect(c, cm) ==
    ClientOutcome([c EXCEPT !.connected = FALSE],
                  set_connection_status(cm, FALSE), "None", {})

\* subscribe(topic) without the test of self.connected.
subscribe_unguarded(c, cm, topic, mqtt_raises) ==
    LET cm1 == increment_subscription_attempts(cm, topic)
        c1 == [c EXCEPT !.subscribed_topics = @ \cup {topic}]
    IN  IF mqtt_raises
        THEN ClientOutcome(c, increment_subscription_failures(cm1, topic),
                           "False", {<<"subscribe", topic>>})
        ELSE ClientOutcome(c1,
                           set_subscriptions_active(
                               cm1, Cardinality(c1.subscribed_topics)),
                           "True", {<<"subscribe", topic>>})

\* ZiggyMQTTClient.subscribe(topic); mqtt_raises: FastMQTT's subscribe
\* raises.
subscribe(c, cm, topic, mqtt_raises) ==
    IF ~c.connected THEN ClientOutcome(c, cm, "False", {})
    ELSE
        LET cm1 == increment_subscription_attempts(cm, topic)
        IN  IF mqtt_raises
            THEN ClientOutcome(c, increment_subscription_failures(cm1, topic),
                               "False", {<<"subscribe", topic>>})
            ELSE
                LET c1 == [c EXCEPT !.subscribed_topics = @ \cup {topic}]
                IN  ClientOutcome(
                        c1,
                        set_subscriptions_active(
                            cm1, Cardinality(c1.subscribed_topics)),
                        "True", {<<"subscribe", topic>>})

\* ZiggyMQTTClient.publish(topic, message); message_is_str: the message is
\* a str (message.encode raises AttributeError otherwise, and again in the
\* except clause's debug line, so the exception leaves publish);
\* mqtt_raises: FastMQTT's publish raises, after the counter has risen.
publish(c, cm, topic, message_is_str, mqtt_raises) ==
    IF ~c.connected THEN ClientOutcome(c, cm, "False", {})
    ELSE IF ~message_is_str THEN ClientOutcome(c, cm, "raised", {})
    ELSE ClientOutcome(c, increment_messages_published(cm, topic),
                       IF mqtt_raises THEN "False" ELSE "True",
                       {<<"publish", topic>>})

\* A client operation that also changes the globals of the process.
ProcessOutcome(c, cm, result, calls, p) ==
    [client |-> c, cm |-> cm, result |-> result, calls |-> calls,
     process |-> p]

\* initialize_mqtt_client(): None when MQTT is not enabled or no broker host
\* is set. Otherwise a client is constructed (ValueError from the port ends
\* in the except clause: None), marked connected with the status gauge at 1,
\* the health and the state topic are added to its subscribed_topics, and
\* then client.zigbee2mqtt_info_topic is read: ZiggyMQTTClient has no such
\* attribute, the AttributeError ends in the except clause and None is
\* returned; set_subscriptions_active and `return client` are not reached.
initialize_mqtt_client(c, cm, p, env) ==
    IF ~env.MQTT_ENABLED \/ ~env.MQTT_BROKER_HOST
    THEN ProcessOutcome(c, cm, "None", {}, p)
    ELSE IF env.MQTT_BROKER_PORT # "1883"
    THEN ProcessOutcome(c, cm, "None", {}, p)
    ELSE
        LET built == ZiggyMQTTClient(env.ZIGBEE2MQTT_BRIDGE_NAME)
        IN  ProcessOutcome(
                [built EXCEPT !.connected = TRUE,
                              !.subscribed_topics =
                                  {zigbee2mqtt_health_topic,
                                   zigbee2mqtt_state_topic}],
                set_connection_status(cm, TRUE), "None", {},
                [p EXCEPT !.zigbee2mqtt_metrics = built.zigbee2mqtt_metrics])

\* lifespan() up to its yield: the result of initialize_mqtt_client becomes
\* main.mqtt_client; a second Zigbee2MQTTMetrics is constructed, named after
\* ZIGBEE2MQTT_BRIDGE_NAME or "navi", and replaces the registered one;
\* update_app_info(get_app_info()); then mqtt_client.zigbee2mqtt_health_topic
\* is read with no test of mqtt_client: AttributeError on None, which
\* leaves lifespan. On a client the health and state topics are added and
\* the read of zigbee2mqtt_info_topic raises.
lifespan(c, cm, p, env) ==
    LET init == initialize_mqtt_client(c, cm, p, env)
        p1 == [init.process EXCEPT
                   !.mqtt_client = init.result,
                   !.zigbee2mqtt_metrics =
                       Zigbee2MQTTMetrics(
                           "lifespan",
                           getenv(env.ZIGBEE2MQTT_BRIDGE_NAME, "navi")),
                   !.lifespan = "raised"]
    IN  IF init.result = "None"
        THEN ProcessOutcome(init.client, init.cm, "raised", {}, p1)
        ELSE ProcessOutcome(
                 [init.client EXCEPT !.subscribed_topics =
                      @ \cup {zigbee2mqtt_health_topic,
                              zigbee2mqtt_state_topic}],
                 init.cm, "raised", {}, p1)

---------------------------------------------------------------------------
(* State and actions                                                       *)

NoCall ==
    [op |-> "init", topic |-> "", payload |-> NonePayload, called |-> "none",
     data |-> EmptyDict, raised |-> FALSE, escaped |-> FALSE]

\* No info operation yet.
NoInfoCall ==
    [op |-> "init", data |-> EmptyDict, items |-> << >>, category |-> "",
     field_name |-> "", emitted |-> {}, raised |-> FALSE]

\* No client operation yet.
NoClientCall ==
    [op |-> "init", topic |-> "", rc |-> 0, result |-> "None", calls |-> {},
     failing |-> {}]

Init ==
    /\ bridge = InitBridge
    /\ handled = << >>
    /\ mqtt_metrics = InitMqttMetrics
    /\ clock = 0
    /\ steps = 0
    /\ last = NoCall
    /\ BRIDGE_INFO_INCLUDED_FIELDS = InitIncludedFields
    /\ info_metrics = InitInfoMetrics
    /\ info_last = NoInfoCall
    /\ client = InitClient
    /\ connection_metrics = InitConnectionMetrics
    /\ client_last = NoClientCall
    /\ process = InitProcess

\* A direct call metrics.update_bridge_health(health_data); an exception
\* reaches the caller.
UpdateBridgeHealth(health_data) ==
    /\ steps < MaxSteps
    /\ LET r == update_bridge_health(bridge, health_data)
       IN  /\ bridge' = r.m
           /\ last' = [op |-> "update_bridge_health", topic |-> "",
                       payload |-> NonePayload,
                       called |-> "update_bridge_health",
                       data |-> health_data, raised |-> ~r.ok,
                       escaped |-> ~r.ok]
    /\ clock' = clock + 1
    /\ steps' = steps + 1
    /\ UNCHANGED <<mqtt_metrics, handled, info_vars, client_vars>>

\* A direct call metrics.update_bridge_state(state_data).
UpdateBridgeState(state_data) ==
    /\ steps < MaxSteps
    /\ clock' = clock + 1
    /\ LET r == update_bridge_state(bridge, state_data, clock')
       IN  /\ bridge' = r.m
           /\ last' = [op |-> "update_bridge_state", topic |-> "",
                       payload |-> NonePayload,
                       called |-> "update_bridge_state",
                       data |-> state_data, raised |-> ~r.ok,
                       escaped |-> ~r.ok]
    /\ steps' = steps + 1
    /\ UNCHANGED <<mqtt_metrics, handled, info_vars, client_vars>>

\* What a callback run leaves in the state.
Deliver(op, topic, payload, out) ==
    /\ bridge' = out.bridge
    /\ mqtt_metrics' = out.mqtt_metrics
    /\ last' = [op |-> op, topic |-> topic, payload |-> payload,
                called |-> out.called, data |-> out.data,
                raised |-> out.raised, escaped |-> out.escaped]
    /\ steps' = steps + 1
    /\ UNCHANGED <<handled, info_vars, client_vars>>

\* The MQTT layer calls on_health_message with a message of the health topic.
OnHealthMessage(payload) ==
    /\ steps < MaxSteps
    /\ clock' = clock + 1
    /\ Deliver("on_health_message", zigbee2mqtt_health_topic, payload,
               on_health_message(bridge, mqtt_metrics,
                                 zigbee2mqtt_health_topic, payload))

\* The MQTT layer calls on_state_message with a message of the state topic.
OnStateMessage(payload) ==
    /\ steps < MaxSteps
    /\ clock' = clock + 1
    /\ Deliver("on_state_message", zigbee2mqtt_state_topic, payload,
               on_state_message(bridge, mqtt_metrics,
                                zigbee2mqtt_state_topic, payload, clock'))

\* The MQTT layer calls on_message, the "#" handler, with a message of any
\* topic.
OnMessage(topic, payload) ==
    /\ steps < MaxSteps
    /\ clock' = clock + 1
    /\ Deliver("on_message", topic, payload,
               on_message(bridge, mqtt_metrics, topic, payload, clock'))

Next ==
    \/ \E health_data \in HealthDicts : UpdateBridgeHealth(health_data)
    \/ \E state_data \in StateDicts : UpdateBridgeState(state_data)
    \/ \E payload \in Payloads : OnHealthMessage(payload)
    \/ \E payload \in Payloads : OnStateMessage(payload)
    \/ \E topic \in Topics, payload \in Payloads : OnMessage(topic, payload)

Spec == Init /\ [][Next]_vars

\* A message arrives from the broker on a topic and the MQTT layer runs the
\* registered callbacks on it.
Message(topic, payload) ==
    /\ steps < MaxSteps
    /\ clock' = clock + 1
    /\ \E outs \in {dispatch(bridge, mqtt_metrics, topic, payload, clock')} :
           /\ bridge' = outs[Len(outs)].bridge
           /\ mqtt_metrics' = outs[Len(outs)].mqtt_metrics
           /\ handled' = [i \in DOMAIN outs |->
                             [handler |-> matching_handlers(topic)[i],
                              called |-> outs[i].called,
                              raised |-> outs[i].raised]]
           /\ last' = [op |-> "message", topic |-> topic,
                       payload |-> payload,
                       called |-> outs[Len(outs)].called,
                       data |-> outs[Len(outs)].data,
                       raised |-> outs[Len(outs)].raised,
                       escaped |-> outs[Len(outs)].escaped]
    /\ steps' = steps + 1
    /\ UNCHANGED <<info_vars, client_vars>>

DeliveryNext == \E topic \in Topics, payload \in Payloads : Message(topic, payload)

\* Messages arriving from the broker, each given to the callbacks that match.
DeliverySpec == Init /\ [][DeliveryNext]_vars

\* A call metrics.update_bridge_info(info_data); an exception reaches the
\* caller.
UpdateBridgeInfo(info_data) ==
    /\ steps < MaxInfoSteps
    /\ clock' = clock + 1
    /\ LET r == update_bridge_info(info_metrics, BRIDGE_INFO_INCLUDED_FIELDS,
                                   info_data, clock')
       IN  /\ info_metrics' = r.m
           /\ info_last' = [NoInfoCall EXCEPT !.op = "update_bridge_info",
                                              !.data = info_data,
                                              !.emitted = r.emitted,
                                              !.raised = ~r.ok]
    /\ steps' = steps + 1
    /\ UNCHANGED <<BRIDGE_INFO_INCLUDED_FIELDS, message_vars, client_vars>>

\* A call metrics.update_app_info(app_info).
UpdateAppInfo(app_info) ==
    /\ steps < MaxInfoSteps
    /\ LET r == update_app_info(info_metrics, app_info)
       IN  /\ info_metrics' = r.m
           /\ info_last' = [NoInfoCall EXCEPT !.op = "update_app_info",
                                              !.items = app_info,
                                              !.emitted =
                                                  IF r.ok THEN {"app"} ELSE {},
                                              !.raised = ~r.ok]
    /\ clock' = clock + 1
    /\ steps' = steps + 1
    /\ UNCHANGED <<BRIDGE_INFO_INCLUDED_FIELDS, message_vars, client_vars>>

\* A call add_bridge_info_field(category, field_name).
AddBridgeInfoField(category, field_name) ==
    /\ steps < MaxInfoSteps
    /\ LET r == add_bridge_info_field(BRIDGE_INFO_INCLUDED_FIELDS, category,
                                      field_name)
       IN  /\ BRIDGE_INFO_INCLUDED_FIELDS' = r.included
           /\ info_last' = [NoInfoCall EXCEPT !.op = "add_bridge_info_field",
                                              !.category = category,
                                              !.field_name = field_name,
                                              !.raised = ~r.ok]
    /\ clock' = clock + 1
    /\ steps' = steps + 1
    /\ UNCHANGED <<info_metrics, message_vars, client_vars>>

\* A call remove_bridge_info_field(category, field_name).
RemoveBridgeInfoField(category, field_name) ==
    /\ steps < MaxInfoSteps
    /\ LET r == remove_bridge_info_field(BRIDGE_INFO_INCLUDED_FIELDS,
                                         category, field_name)
       IN  /\ BRIDGE_INFO_INCLUDED_FIELDS' = r.included
           /\ info_last' = [NoInfoCall EXCEPT
                                !.op = "remove_bridge_info_field",
                                !.category = category,
                                !.field_name = field_name,
                                !.raised = ~r.ok]
    /\ clock' = clock + 1
    /\ steps' = steps + 1
    /\ UNCHANGED <<info_metrics, message_vars, client_vars>>

InfoNext ==
    \/ \E info_data \in InfoDicts : UpdateBridgeInfo(info_data)
    \/ \E app_info \in AppInfos : UpdateAppInfo(app_info)
    \/ \E category \in CallCategories, field_name \in FieldNames :
           AddBridgeInfoField(category, field_name)
    \/ \E category \in CallCategories, field_name \in FieldNames :
           RemoveBridgeInfoField(category, field_name)

\* The info operations called in any order, on their own.
InfoSpec == Init /\ [][InfoNext]_vars

\* What a client operation leaves in the state; failing: the topics whose
\* subscription the MQTT layer refuses during the operation.
ProcessStep(op, topic, rc, failing, out, p) ==
    /\ steps < MaxClientSteps
    /\ client' = out.client
    /\ connection_metrics' = out.cm
    /\ client_last' = [op |-> op, topic |-> topic, rc |-> rc,
                       result |-> out.result, calls |-> out.calls,
                       failing |-> failing]
    /\ process' = p
    /\ clock' = clock + 1
    /\ steps' = steps + 1
    /\ UNCHANGED <<message_vars, info_vars>>

\* A client operation that leaves the globals of the process alone.
ClientStep(op, topic, rc, out) == ProcessStep(op, topic, rc, {}, out, process)

\* await client.connect()
Connect(raises_at) ==
    ClientStep(IF raises_at = "none" THEN "connect" ELSE "connect_raising",
               "", 0, connect(client, connection_metrics, raises_at))

\* await client.disconnect()
Disconnect ==
    ClientStep("disconnect", "", 0, disconnect(client, connection_metrics))

\* The MQTT layer reports the broker's answer to a connection request.
OnConnect(rc, failing) ==
    ProcessStep("on_connect", "", rc, failing,
                on_connect(client, connection_metrics, rc, failing), process)

\* The MQTT layer reports the loss of the connection.
OnDisconnect ==
    ClientStep("on_disconnect", "", 0,
               on_disconnect(client, connection_metrics))

\* await client.subscribe(topic)
Subscribe(topic, mqtt_raises) ==
    ClientStep(IF mqtt_raises THEN "subscribe_failing" ELSE "subscribe",
               topic, 0,
               subscribe(client, connection_metrics, topic, mqtt_raises))

\* await client.publish(topic, message)
Publish(topic, message_is_str, mqtt_raises) ==
    ClientStep(IF mqtt_raises THEN "publish_failing" ELSE "publish",
               topic, 0,
               publish(client, connection_metrics, topic, message_is_str,
                       mqtt_raises))

\* The case of a startup under the settings env: MQTT not enabled or no
\* broker host, a client whose construction fails, or a client constructed.
startup_case(op, env) ==
    IF ~env.MQTT_ENABLED \/ ~env.MQTT_BROKER_HOST THEN op \o "_disabled"
    ELSE IF env.MQTT_BROKER_PORT # "1883" THEN op \o "_failing"
    ELSE op

\* initialize_mqtt_client() under the settings env.
InitializeMqttClient(env) ==
    LET out == initialize_mqtt_client(client, connection_metrics, process, env)
    IN  ProcessStep(startup_case("initialize_mqtt_client", env),
                    "", 0, {}, out, out.process)

\* The application starts under the settings env: lifespan() to its yield.
Lifespan(env) ==
    LET out == lifespan(client, connection_metrics, process, env)
    IN  ProcessStep(startup_case("lifespan", env), "", 0, {}, out,
                    out.process)

\* The topics whose re-subscription may fail in on_connect.
FailingTopics == {{}, {zigbee2mqtt_health_topic}}

\* The topics the application publishes on.
ClientTopics == {zigbee2mqtt_health_topic, zigbee2mqtt_state_topic}

ClientNext ==
    \/ \E raises_at \in RaisePoints : Connect(raises_at)
    \/ Disconnect
    \/ \E rc \in ReturnCodes, failing \in FailingTopics :
           OnConnect(rc, failing)
    \/ OnDisconnect
    \/ \E topic \in Topics, mqtt_raises \in BOOLEAN :
           Subscribe(topic, mqtt_raises)
    \/ \E topic \in ClientTopics, message_is_str, mqtt_raises \in BOOLEAN :
           Publish(topic, message_is_str, mqtt_raises)
    \/ \E env \in Environments : InitializeMqttClient(env)
    \/ \E env \in Environments : Lifespan(env)

\* The client's operations and the connection events in any order.
ClientSpec == Init /\ [][ClientNext]_vars

---------------------------------------------------------------------------
(* Vocabulary of the properties                                            *)

Callbacks == {"on_health_message", "on_state_message", "on_message"}

\* The call ran update_bridge_health on l.data.
HealthCall(l) == l.called = "update_bridge_health"

\* The call ran update_bridge_state on l.data.
StateCall(l) == l.called = "update_bridge_state"

HasTotal(l, k) == HealthCall(l) /\ Has(l.data, "mqtt") /\ Has(l.data.mqtt, k)

CounterOf(k) ==
    IF k = "published_messages_total"
    THEN "zigbee2mqtt_mqtt_published_messages"
    ELSE "zigbee2mqtt_mqtt_received_messages"

GaugeOf(field) ==
    CASE field = "leave_count" -> "zigbee2mqtt_device_leave_count"
      [] field = "network_address_changes" ->
             "zigbee2mqtt_device_network_address_changes"
      [] field = "messages" -> "zigbee2mqtt_device_messages"
      [] field = "messages_per_sec" -> "zigbee2mqtt_device_messages_per_sec"

\* The health call carried a devices map.
HasDevicesMap(l) ==
    HealthCall(l) /\ Has(l.data, "devices") /\ l.data.devices.type = "dict"

\* The devices map holds one of the summary keys.
SummaryShape(l) ==
    HasDevicesMap(l) /\ DeviceKeys(l.data.devices.items) \cap SummaryKeys # {}

\* The devices map is in per-device form and every entry is a mapping.
PerDeviceForm(l) ==
    /\ HasDevicesMap(l)
    /\ DeviceKeys(l.data.devices.items) \cap SummaryKeys = {}
    /\ \A i \in DOMAIN l.data.devices.items :
           l.data.devices.items[i][2].type = "dict"

\* The metrics each optional top-level key of a health payload feeds.
KeyMetrics(k) ==
    CASE k = "response_time" -> {"zigbee2mqtt_bridge_health_timestamp"}
      [] k = "os" ->
             {"zigbee2mqtt_os_load_average_1m",
              "zigbee2mqtt_os_load_average_5m",
              "zigbee2mqtt_os_load_average_15m",
              "zigbee2mqtt_os_memory_used_mb",
              "zigbee2mqtt_os_memory_percent"}
      [] k = "process" ->
             {"zigbee2mqtt_process_uptime_seconds",
              "zigbee2mqtt_process_memory_used_mb",
              "zigbee2mqtt_process_memory_percent"}
      [] k = "mqtt" ->
             {"zigbee2mqtt_mqtt_connected",
              "zigbee2mqtt_mqtt_queued_messages",
              "zigbee2mqtt_mqtt_published_messages",
              "zigbee2mqtt_mqtt_received_messages"}
      [] k = "devices" ->
             DeviceGauges \cup {"zigbee2mqtt_device_appearances"}

HealthKeys == {"response_time", "os", "process", "mqtt", "devices"}

\* The payload decodes as text that is not JSON.
NotJson(payload) ==
    /\ payload.type \in {"bytes", "str"}
    /\ payload.type = "bytes" => payload.utf8
    /\ payload.text.kind \in {"empty", "malformed"}

---------------------------------------------------------------------------
(* C1 .. C10                                                               *)

\* C1: of two consecutive update_bridge_health calls that both return and
\* report totals T1 <= T2 for published (resp. received) messages, the
\* second raises the local counter by T2 - T1; repeating a total leaves the
\* counter unchanged.
C1_TotalsReconciled ==
    [][\A k \in {"published_messages_total", "received_messages_total"} :
           (/\ HasTotal(last, k) /\ ~last.raised
            /\ HasTotal(last', k) /\ ~last'.raised
            /\ 0 <= last.data.mqtt[k]
            /\ last.data.mqtt[k] <= last'.data.mqtt[k])
           => bridge'[CounterOf(k)] =
                  bridge[CounterOf(k)]
                      + (last'.data.mqtt[k] - last.data.mqtt[k])]_vars

\* C2: no call ever lowers a counter-backed bridge metric (published
\* messages, received messages, device appearances), whatever totals the
\* message carries and whether or not its processing fails.
C2_CountersNeverDecrease ==
    [][/\ bridge'.zigbee2mqtt_mqtt_published_messages
              >= bridge.zigbee2mqtt_mqtt_published_messages
       /\ bridge'.zigbee2mqtt_mqtt_received_messages
              >= bridge.zigbee2mqtt_mqtt_received_messages
       /\ \A d \in DeviceLabels :
              bridge'.zigbee2mqtt_device_appearances[d]
                  >= bridge.zigbee2mqtt_device_appearances[d]]_vars

\* A health message with a negative published total has failed while the
\* published counter already stands above zero.
C2_Witness ==
    /\ HasTotal(last, "published_messages_total")
    /\ last.data.mqtt.published_messages_total < 0
    /\ last.raised
    /\ bridge.zigbee2mqtt_mqtt_published_messages > 0

\* C3: after a health message in per-device form, each per-device gauge of
\* each device of the message holds the value the message carried for it.
C3_DeviceGaugesHoldMessageValue ==
    PerDeviceForm(last) =>
        \A i \in DOMAIN last.data.devices.items :
            LET device_ieee == last.data.devices.items[i][1]
                fields == last.data.devices.items[i][2].fields
            IN  \A f \in DOMAIN fields :
                    bridge[GaugeOf(f)][device_ieee] = fields[f]

\* C4: an update_bridge_health call raises the appearance counter of every
\* device of its per-device devices map by exactly 1 and leaves the counter
\* of every other device unchanged.
C4_AppearanceOncePerCall ==
    [][PerDeviceForm(last') =>
           \A d \in DeviceLabels :
               bridge'.zigbee2mqtt_device_appearances[d] =
                   bridge.zigbee2mqtt_device_appearances[d]
                       + (IF d \in DeviceKeys(last'.data.devices.items)
                          THEN 1 ELSE 0)]_vars

\* C5: an update_bridge_health call whose devices map holds "total" or
\* "active" changes no per-device gauge and no appearance counter, also
\* when the map holds device-like entries.
C5_SummaryShapeSkipped ==
    [][SummaryShape(last') =>
           \A g \in DeviceGauges \cup {"zigbee2mqtt_device_appearances"} :
               bridge'[g] = bridge[g]]_vars

\* A summary map with a device entry ahead of the summary key was processed.
C5_Witness ==
    /\ SummaryShape(last)
    /\ ~last.raised
    /\ last.data.devices.items[1][1] \in DeviceIeee
    /\ last.data.devices.items[1][2].type = "dict"

\* C6: an update_bridge_health call whose payload lacks an optional
\* top-level key leaves every gauge and counter fed by that key at its
\* previous value.
C6_MissingKeyUntouched ==
    [][HealthCall(last') =>
           \A k \in HealthKeys :
               ~Has(last'.data, k) =>
                   \A g \in KeyMetrics(k) : bridge'[g] = bridge[g]]_vars

\* A health payload without the process key was applied while the process
\* gauges held values of an earlier message.
C6_Witness ==
    /\ HealthCall(last)
    /\ ~Has(last.data, "process")
    /\ Has(last.data, "os")
    /\ bridge.zigbee2mqtt_process_uptime_seconds = 21
    /\ bridge.zigbee2mqtt_process_memory_percent = 23

\* C7: an update_bridge_health call whose os.load_average has fewer than 3
\* elements sets none of the three load-average gauges, and still applies
\* the other os fields of the payload.
C7_ShortLoadAverageSkipped ==
    [][(/\ HealthCall(last')
        /\ Has(last'.data, "os")
        /\ Has(last'.data.os, "load_average")
        /\ Len(last'.data.os.load_average) < 3)
       => /\ bridge'.zigbee2mqtt_os_load_average_1m
                 = bridge.zigbee2mqtt_os_load_average_1m
          /\ bridge'.zigbee2mqtt_os_load_average_5m
                 = bridge.zigbee2mqtt_os_load_average_5m
          /\ bridge'.zigbee2mqtt_os_load_average_15m
                 = bridge.zigbee2mqtt_os_load_average_15m
          /\ Has(last'.data.os, "memory_used_mb") =>
                 bridge'.zigbee2mqtt_os_memory_used_mb
                     = last'.data.os.memory_used_mb
          /\ Has(last'.data.os, "memory_percent") =>
                 bridge'.zigbee2mqtt_os_memory_percent
                     = last'.data.os.memory_percent]_vars

\* A two-element load average arrived with a memory field after a full
\* load average had been applied.
C7_Witness ==
    /\ HealthCall(last)
    /\ Has(last.data, "os")
    /\ Has(last.data.os, "load_average")
    /\ Len(last.data.os.load_average) = 2
    /\ Has(last.data.os, "memory_percent")
    /\ bridge.zigbee2mqtt_os_memory_percent = 12
    /\ bridge.zigbee2mqtt_os_load_average_1m = 4
    /\ bridge.zigbee2mqtt_os_load_average_15m = 6

\* C8: update_bridge_state sets the state gauge to 1 iff the state field is
\* "online" and to 0 for any other present value, leaves it untouched when
\* the field is absent, always stamps the state-timestamp gauge with the
\* current time, and raises nothing.
C8_BridgeState ==
    [][StateCall(last') =>
           /\ Has(last'.data, "state") =>
                  bridge'.zigbee2mqtt_bridge_state
                      = (IF last'.data.state = "online" THEN 1 ELSE 0)
           /\ ~Has(last'.data, "state") =>
                  bridge'.zigbee2mqtt_bridge_state
                      = bridge.zigbee2mqtt_bridge_state
           /\ bridge'.zigbee2mqtt_bridge_state_timestamp = clock'
           /\ bridge'.zigbee2mqtt_bridge_state_timestamp
                  > bridge.zigbee2mqtt_bridge_state_timestamp
           /\ ~last'.raised]_vars

\* A state payload without the state field arrived while the gauge was 1:
\* the gauge is still 1 and the timestamp is the time of this call.
C8_Witness ==
    /\ StateCall(last)
    /\ ~Has(last.data, "state")
    /\ bridge.zigbee2mqtt_bridge_state = 1
    /\ bridge.zigbee2mqtt_bridge_state_timestamp = clock
    /\ clock = 2

C10_NoExceptionEscapes == last.op \in Callbacks => ~last.escaped

---------------------------------------------------------------------------
(* C11, C17: decoding and routing of incoming messages                     *)

\* base_topic/bridge/info: the topic main.py registers at startup as
\* client.zigbee2mqtt_info_topic.
zigbee2mqtt_info_topic == "zigbee2mqtt/bridge/info"

\* C11: a callback run on the health or state topic with a payload whose
\* bytes are not valid UTF-8 raises the topic's json_parse_error counter by
\* exactly 1, raises no handler_error counter and updates no bridge metric.
C11_InvalidUtf8IsParseError ==
    [][(/\ last'.op \in Callbacks
        /\ last'.topic \in {zigbee2mqtt_health_topic, zigbee2mqtt_state_topic}
        /\ last'.payload = InvalidUtf8Bytes)
       => /\ \A k \in Topics \X ErrorTypes :
                 mqtt_metrics'.mqtt_message_processing_errors[k] =
                     mqtt_metrics.mqtt_message_processing_errors[k]
                         + (IF k = <<last'.topic, "json_parse_error">>
                            THEN 1 ELSE 0)
          /\ bridge' = bridge]_vars

\* The update operation a topic is classified to.
ClassifiedAs(topic) ==
    CASE topic = zigbee2mqtt_health_topic -> "update_bridge_health"
      [] topic = zigbee2mqtt_state_topic -> "update_bridge_state"
      [] topic = zigbee2mqtt_info_topic -> "update_bridge_info"
      [] OTHER -> "none"

\* C17: a message with a JSON object payload that reaches on_message is
\* handed to the update operation of its topic, compared by exact equality
\* with the health, state and info topics; a message of any other topic is
\* a general message and reaches no update operation.
C17_TopicRouting ==
    (last.op = "on_message" /\ last.payload \in ObjectPayloads)
        => last.called = ClassifiedAs(last.topic)

---------------------------------------------------------------------------
(* C12 .. C16, C18: bridge info, field configuration, application info     *)

\* The categories update_bridge_info emits and the Info metric of each.
EmittedCategories == {"version", "coordinator", "config"}

InfoMetricOf(category) ==
    CASE category = "version" -> "zigbee2mqtt_bridge_info_version"
      [] category = "coordinator" -> "zigbee2mqtt_bridge_info_coordinator"
      [] category = "config" -> "zigbee2mqtt_bridge_info_config"

\* The fields a list holds.
Listed(list) == {list[i] : i \in DOMAIN list}

\* The keys an info payload carries for a category: the root's keys for
\* version, the keys of the category's sub-object for the others.
SourceKeys(category, info_data) ==
    IF category = "version" THEN DOMAIN info_data
    ELSE IF Has(info_data, category) /\ info_data[category].type = "dict"
    THEN DOMAIN info_data[category].fields
    ELSE {}

\* The value an info payload carries for a field of a category.
SourceValue(category, info_data, field) ==
    IF category = "version" THEN info_data[field]
    ELSE info_data[category].fields[field]

\* The payload of the end-to-end scenario.
ScenarioInfo ==
    [version |-> PyStr("1.13.0-dev"), commit |-> PyStr("772f6c0"),
     coordinator |->
         PyDict([ieee_address |-> PyStr("0x123"), type |-> PyStr("zStack30x"),
                 extra_field |-> PyStr("ignored")])]

\* C12: every Info metric a call of update_bridge_info emits has only keys
\* that are listed for its category when the call is made and present in
\* the payload, each with the payload's value as a string; with the default
\* configuration the scenario payload yields version info {version, commit}
\* and coordinator info {ieee_address, type}, and no emitted metric has the
\* key extra_field.
C12_EmittedKeysAllowListed ==
    [][info_last'.op = "update_bridge_info"
       => /\ \A c \in info_last'.emitted :
               LET emitted == info_metrics'[InfoMetricOf(c)]
               IN  /\ DOMAIN emitted \subseteq
                          Listed(BRIDGE_INFO_INCLUDED_FIELDS[c])
                              \cap SourceKeys(c, info_last'.data)
                   /\ \A f \in DOMAIN emitted :
                          emitted[f] = str(SourceValue(c, info_last'.data, f))
          /\ (/\ info_last'.data = ScenarioInfo
              /\ BRIDGE_INFO_INCLUDED_FIELDS = InitIncludedFields)
             => /\ info_metrics'.zigbee2mqtt_bridge_info_version =
                       [version |-> "1.13.0-dev", commit |-> "772f6c0"]
                /\ info_metrics'.zigbee2mqtt_bridge_info_coordinator =
                       [ieee_address |-> "0x123", type |-> "zStack30x"]
                /\ \A c \in info_last'.emitted :
                       "extra_field" \notin
                           DOMAIN info_metrics'[InfoMetricOf(c)]]_vars

\* The scenario payload was applied under the default configuration and
\* both Info metrics were emitted.
C12_Witness ==
    /\ info_last.op = "update_bridge_info"
    /\ info_last.data = ScenarioInfo
    /\ info_last.emitted = {"version", "coordinator"}
    /\ BRIDGE_INFO_INCLUDED_FIELDS = InitIncludedFields
    /\ info_metrics.zigbee2mqtt_bridge_info_coordinator =
           [ieee_address |-> "0x123", type |-> "zStack30x"]


\* The six categories of the info payload, and the fields the repository's
\* tests expect BRIDGE_INFO_INCLUDED_FIELDS to list for those the module
\* does not define.
SixCategories == {"version", "coordinator", "network", "bridge", "os", "mqtt"}

ExpectedIncludedFields ==
    [network |-> <<"channel", "pan_id", "extended_pan_id">>,
     bridge |-> <<"log_level", "permit_join", "permit_join_end",
                  "restart_required">>,
     os |-> <<"version", "node_version", "cpus", "memory_mb">>,
     mqtt |-> <<"server", "version">>]

\* The fields allow-listed for a category.
AllowListed(category) ==
    IF category \in DOMAIN BRIDGE_INFO_INCLUDED_FIELDS
    THEN Listed(BRIDGE_INFO_INCLUDED_FIELDS[category])
    ELSE Listed(ExpectedIncludedFields[category])

\* The keys a payload carries for a category: version and bridge fields sit
\* at the root, the others in the sub-object named after the category.
CategoryKeys(category, info_data) ==
    IF category \in {"version", "bridge"} THEN DOMAIN info_data
    ELSE SourceKeys(category, info_data)

\* C13: a call of update_bridge_info that returns emits an Info metric for
\* each of the categories version, coordinator, network, bridge, os and
\* mqtt of which the payload carries at least one allow-listed field.
C13_EveryCategoryEmitted ==
    (info_last.op = "update_bridge_info" /\ ~info_last.raised)
        => \A c \in SixCategories :
               AllowListed(c) \cap CategoryKeys(c, info_last.data) # {}
                   => c \in info_last.emitted


\* C14: a call of update_bridge_info sets the info timestamp gauge to the
\* current time and, for every category whose sub-object is absent from
\* the payload or carries none of the category's listed fields, leaves the
\* category's Info value as it was; no call replaces an Info value by the
\* empty map.
C14_AbsentCategoryUntouched ==
    [][info_last'.op = "update_bridge_info"
       => /\ info_metrics'.zigbee2mqtt_bridge_info_timestamp = clock'
          /\ \A c \in EmittedCategories :
                 /\ (Listed(BRIDGE_INFO_INCLUDED_FIELDS[c])
                         \cap SourceKeys(c, info_last'.data) = {})
                    => info_metrics'[InfoMetricOf(c)] =
                           info_metrics[InfoMetricOf(c)]
                 /\ info_metrics'[InfoMetricOf(c)] = EmptyDict
                    => info_metrics[InfoMetricOf(c)] = EmptyDict]_vars

\* A payload whose coordinator object has no listed field came after one
\* that had set the coordinator Info: the value stayed, the timestamp moved.
C14_Witness ==
    /\ info_last.op = "update_bridge_info"
    /\ info_last.data =
           [version |-> PyStr("1.13.0-dev"),
            coordinator |-> PyDict([extra_field |-> PyStr("ignored")])]
    /\ info_metrics.zigbee2mqtt_bridge_info_coordinator =
           [ieee_address |-> "0x12345678"]
    /\ info_metrics.zigbee2mqtt_bridge_info_timestamp = 2


\* No field occurs twice in the list.
NoDuplicates(list) ==
    \A i, j \in DOMAIN list : list[i] = list[j] => i = j

\* The field is a member of the category's list.
IsListed(included, category, field_name) ==
    category \in DOMAIN included /\ InList(field_name, included[category])

\* C15: whatever add_ and remove_bridge_info_field calls have been made, no
\* category's list holds a field twice; adding a field its list already
\* holds, and removing a field its list does not hold, leave the whole
\* configuration unchanged and raise nothing.
C15_FieldListsAreSets ==
    [][/\ \A c \in DOMAIN BRIDGE_INFO_INCLUDED_FIELDS' :
              NoDuplicates(BRIDGE_INFO_INCLUDED_FIELDS'[c])
       /\ (/\ info_last'.op = "add_bridge_info_field"
           /\ IsListed(BRIDGE_INFO_INCLUDED_FIELDS, info_last'.category,
                       info_last'.field_name))
          => /\ BRIDGE_INFO_INCLUDED_FIELDS' = BRIDGE_INFO_INCLUDED_FIELDS
             /\ ~info_last'.raised
       /\ (/\ info_last'.op = "remove_bridge_info_field"
           /\ ~IsListed(BRIDGE_INFO_INCLUDED_FIELDS, info_last'.category,
                        info_last'.field_name))
          => /\ BRIDGE_INFO_INCLUDED_FIELDS' = BRIDGE_INFO_INCLUDED_FIELDS
             /\ ~info_last'.raised]_vars

\* The first call of a run added commit, which the default version list
\* already holds.
C15_Witness ==
    /\ info_last.op = "add_bridge_info_field"
    /\ info_last.category = "version"
    /\ info_last.field_name = "commit"
    /\ steps = 1
    /\ BRIDGE_INFO_INCLUDED_FIELDS = InitIncludedFields


\* How often the field occurs in the category's list; 0 for a category the
\* configuration does not have.
Occurrences(included, category, field_name) ==
    IF category \in DOMAIN included
    THEN Cardinality({i \in DOMAIN included[category] :
                          included[category][i] = field_name})
    ELSE 0

\* C16: for each of the categories version, coordinator, network and bridge,
\* after add_bridge_info_field(category, f) the category's list holds f
\* exactly once, and after remove_bridge_info_field(category, f) it does
\* not hold f.
C16_AddThenRemove ==
    /\ (/\ info_last.op = "add_bridge_info_field"
        /\ info_last.category \in {"version", "coordinator", "network",
                                   "bridge"})
       => Occurrences(BRIDGE_INFO_INCLUDED_FIELDS, info_last.category,
                      info_last.field_name) = 1
    /\ (/\ info_last.op = "remove_bridge_info_field"
        /\ info_last.category \in {"version", "coordinator", "network",
                                   "bridge"})
       => Occurrences(BRIDGE_INFO_INCLUDED_FIELDS, info_last.category,
                      info_last.field_name) = 0


\* C18: after update_app_info(app_info) the application Info map holds,
\* for every top-level key a whose value is a mapping and every key b of
\* it, the key a_b with the leaf as a string, and every other top-level
\* value (None included) under its own key as a string; the call raises
\* nothing.
C18_AppInfoFlattened ==
    info_last.op = "update_app_info"
        => /\ ~info_last.raised
           /\ \A i \in DOMAIN info_last.items :
                  LET a == info_last.items[i][1]
                      value == info_last.items[i][2]
                  IN  IF value.type = "dict"
                      THEN \A b \in DOMAIN value.fields :
                               /\ Has(info_metrics.ziggy_app_info,
                                      a \o "_" \o b)
                               /\ info_metrics.ziggy_app_info[a \o "_" \o b] =
                                      str(value.fields[b])
                      ELSE /\ Has(info_metrics.ziggy_app_info, a)
                           /\ info_metrics.ziggy_app_info[a] = str(value)

---------------------------------------------------------------------------
(* C19, C20: subscriptions and connection attempts                         *)

\* subscribe(topic) returned True.
SubscribeSucceeded(l) == l.op = "subscribe" /\ l.result = "True"

\* C19: a subscribe(topic) that succeeds raises the subscription-attempts
\* counter of the topic by 1, has the topic in subscribed_topics and sets
\* the active-subscriptions gauge to len(subscribed_topics); after every
\* successful subscribe, repeated topics included, and after the startup
\* topic registration the gauge equals the number of subscribed topics.
C19_ActiveSubscriptionsGauge ==
    [][/\ SubscribeSucceeded(client_last')
          => /\ connection_metrics'.mqtt_subscription_attempts[
                    client_last'.topic] =
                    connection_metrics.mqtt_subscription_attempts[
                        client_last'.topic] + 1
             /\ client'.subscribed_topics =
                    client.subscribed_topics \cup {client_last'.topic}
       /\ (SubscribeSucceeded(client_last')
               \/ client_last'.op = "initialize_mqtt_client")
          => connection_metrics'.mqtt_subscriptions_active =
                 Cardinality(client'.subscribed_topics)]_vars

\* C20: connect() raises the connection-attempts counter by exactly 1 and
\* leaves the connection state as it was: neither the client's connected
\* flag nor the connection-status gauge changes until a connection event
\* arrives.
C20_AttemptLeavesState ==
    [][client_last'.op = "connect"
       => /\ connection_metrics'.mqtt_connection_attempts =
                 connection_metrics.mqtt_connection_attempts + 1
          /\ client'.connected = client.connected
          /\ connection_metrics'.mqtt_connection_status =
                 connection_metrics.mqtt_connection_status]_vars


---------------------------------------------------------------------------
(* Connection events, startup and the process                              *)

\* The connection-failure counters other than the one of reason.
OtherFailuresUnchanged(reason) ==
    \A r \in Reasons \ {reason} :
        connection_metrics'.mqtt_connection_failures[r] =
            connection_metrics.mqtt_connection_failures[r]

\* C21: a connect event with a non-zero return code, from any prior state,
\* leaves the client disconnected and the status gauge at 0, raises the
\* failure counter of reason rc_<rc> by exactly 1 (no other reason's), and
\* issues no subscribe call; subscribed_topics is kept.
C21_RefusedConnect ==
    [][client_last'.op = "on_connect" /\ client_last'.rc # 0
       => /\ ~client'.connected
          /\ connection_metrics'.mqtt_connection_status = 0
          /\ connection_metrics'.mqtt_connection_failures[
                 rc_reason(client_last'.rc)] =
                 connection_metrics.mqtt_connection_failures[
                     rc_reason(client_last'.rc)] + 1
          /\ OtherFailuresUnchanged(rc_reason(client_last'.rc))
          /\ client_last'.calls = {}
          /\ client'.subscribed_topics = client.subscribed_topics]_vars

\* A connected client with a subscription had its reconnection refused.
C21_Witness ==
    /\ client_last.op = "on_connect"
    /\ client_last.rc = 5
    /\ client.subscribed_topics # {}
    /\ connection_metrics.mqtt_connection_attempts > 0
    /\ connection_metrics.mqtt_connection_failures["rc_5"] = 1
    /\ ~client.connected


\* C22: every connect event with return code 0, a reconnection included,
\* issues one subscribe call to the MQTT layer for every topic of
\* subscribed_topics, also for the topics after one whose subscription
\* raised, and leaves subscribed_topics as it was.
C22_ResubscribeOnConnect ==
    [][client_last'.op = "on_connect" /\ client_last'.rc = 0
       => /\ client_last'.calls =
                 {<<"subscribe", topic>> : topic \in client.subscribed_topics}
          /\ client'.subscribed_topics = client.subscribed_topics
          /\ client'.connected]_vars

\* A reconnection with two subscribed topics, the subscription of one of
\* them raising.
C22_Witness ==
    /\ client_last.op = "on_connect"
    /\ client_last.rc = 0
    /\ Cardinality(client.subscribed_topics) >= 2
    /\ client_last.failing \cap client.subscribed_topics # {}
    /\ Cardinality(client_last.calls) >= 2


\* C23: with MQTT_ENABLED true and MQTT_BROKER_HOST set,
\* initialize_mqtt_client returns the client it created, connected and with
\* the health topic in subscribed_topics, and issues no subscribe call; a
\* newly constructed client has no topic.
C23_InitializeReturnsClient ==
    [][client_last'.op = "initialize_mqtt_client"
       => /\ client_last'.result = "client"
          /\ client'.connected
          /\ zigbee2mqtt_health_topic \in client'.subscribed_topics
          /\ client_last'.calls = {}
          /\ \A name \in {"unset", "home"} :
                 ZiggyMQTTClient(name).subscribed_topics = {}]_vars


\* C25: after a startup that constructs the client, the Zigbee2MQTTMetrics
\* instance the message handlers update is the instance
\* get_zigbee2mqtt_metrics() returns, and the bridge_name label of the MQTT
\* connection metrics is that instance's bridge_name, whatever
\* ZIGBEE2MQTT_BRIDGE_NAME is set to.
C25_OneBridgeIdentity ==
    [][client_last'.op = "lifespan"
       => /\ client'.zigbee2mqtt_metrics = process'.zigbee2mqtt_metrics
          /\ client'.metrics.bridge_name =
                 process'.zigbee2mqtt_metrics.bridge_name]_vars

\* C26: when initialize_mqtt_client returns None (MQTT not enabled, no
\* broker host, or the construction failed), lifespan reaches its running
\* state without raising.
C26_LifespanWithoutClient ==
    [][/\ client_last'.op \in {"lifespan", "lifespan_disabled",
                               "lifespan_failing"}
       /\ process'.mqtt_client = "None"
       => /\ process'.lifespan = "running"
          /\ client_last'.result # "raised"]_vars


\* connect(), disconnect() and the two connection events.
ConnectionOps ==
    {"connect", "connect_raising", "disconnect", "on_connect",
     "on_disconnect"}

\* C29: after each of connect(), disconnect(), a connect event and a
\* disconnect event, the status gauge is 1 exactly when the connected flag
\* is True, also when connect() took its exception path; and disconnect()
\* on a client that is not connected changes neither the client nor the
\* metrics.
C29_StatusGaugeMatchesConnected ==
    [][/\ client_last'.op \in ConnectionOps
          => (connection_metrics'.mqtt_connection_status = 1
                  <=> client'.connected)
       /\ client_last'.op = "disconnect" /\ ~client.connected
          => /\ client' = client
             /\ connection_metrics' = connection_metrics]_vars


\* subscribe() and publish(), whatever the MQTT layer does.
SubscribeOrPublish ==
    {"subscribe", "subscribe_failing", "publish", "publish_failing"}

---------------------------------------------------------------------------
(* The version category and dropped health messages                        *)

\* C28: a call of update_bridge_info whose payload has a commit key and no
\* version key, commit being listed for the version category, emits a
\* version Info that contains commit.
C28_CommitWithoutVersion ==
    [][/\ info_last'.op = "update_bridge_info"
       /\ ~info_last'.raised
       /\ Has(info_last'.data, "commit")
       /\ ~Has(info_last'.data, "version")
       /\ "commit" \in Listed(BRIDGE_INFO_INCLUDED_FIELDS["version"])
       => /\ "version" \in info_last'.emitted
          /\ Has(info_metrics'.zigbee2mqtt_bridge_info_version, "commit")]_vars


\* The handler_error count of the health topic.
HealthHandlerErrors(mm) ==
    mm.mqtt_message_processing_errors[<<zigbee2mqtt_health_topic,
                                        "handler_error">>]

\* C27: a health message whose handling ends in handler_error is dropped as
\* a whole: no bridge gauge or counter changes, and the handler_error
\* counter of the health topic rises by exactly 1.
C27_FailedHealthMessageDropped ==
    [][/\ last'.op = "on_health_message"
       /\ HealthHandlerErrors(mqtt_metrics') # HealthHandlerErrors(mqtt_metrics)
       => /\ bridge' = bridge
          /\ HealthHandlerErrors(mqtt_metrics') =
                 HealthHandlerErrors(mqtt_metrics) + 1]_vars


---------------------------------------------------------------------------
(* One handling path per message                                           *)

\* The runs of the last message that called an update of the bridge metrics.
UpdateRuns(runs) == {i \in DOMAIN runs : runs[i].called # "none"}

\* C24: a health or state message that is handled is handled on one path:
\* update_bridge_health / update_bridge_state runs exactly once for it, and
\* the messages-received counter of its topic and every device-appearance
\* counter rise by at most 1, by exactly 1 for the received counter.
C24_OneHandlingPath ==
    [][/\ last'.op = "message"
       /\ last'.topic \in {zigbee2mqtt_health_topic, zigbee2mqtt_state_topic}
       /\ UpdateRuns(handled') # {}
       => /\ Cardinality(UpdateRuns(handled')) = 1
          /\ mqtt_metrics'.mqtt_messages_received[last'.topic] =
                 mqtt_metrics.mqtt_messages_received[last'.topic] + 1
          /\ \A d \in DOMAIN bridge.zigbee2mqtt_device_appearances :
                 bridge'.zigbee2mqtt_device_appearances[d] <=
                     bridge.zigbee2mqtt_device_appearances[d] + 1]_vars

=============================================================================
